---- MODULE Spec2Model ----
(***************************************************************************)
(* Model of the incremental backup engine of src/backup_utility.py:        *)
(* BackupUtility.run and the helpers it calls, BackupUtility.verify_backup *)
(* and the exit status computed by main.                                   *)
(*                                                                         *)
(* The source tree holds two files, one in the source root and one in a    *)
(* subdirectory.  File contents are abstract values; a digest is an        *)
(* injective tag of the bytes it was computed from.  Times are in          *)
(* microseconds.  exclude_patterns is the default (empty list).            *)
(***************************************************************************)
EXTENDS Integers, Sequences, FiniteSets, TLC

\* ------------------------------------------------------------------ bounds
MaxEvents == 2      \* what happens around the first backup in a behaviour:
                    \* further invocations, I/O failures, user interrupts,
                    \* edits of the source tree, damaged artifacts

\* ------------------------------------------------------- program constants
CompressThreshold == 1024      \* _backup_file: file_hash.size > 1024
MTimeTolerance == 1000         \* _needs_backup: 0.001 s, in microseconds
ExitInterrupted == 130         \* main: return 130

\* --------------------------------------------------------------- universe
Paths == {"a.txt", "sub/b.txt"}
WalkOrder == <<"a.txt", "sub/b.txt">>      \* os.walk is top-down
RootDir == "."
Dir(p) == IF p = "a.txt" THEN RootDir ELSE "sub"
Dirs == {RootDir, "sub"}
Ancestors(d) == IF d = RootDir THEN {RootDir} ELSE {RootDir, d}

\* a.txt is the largest file stored uncompressed, sub/b.txt the smallest one
\* that --compress gzips
InitialSize(p) == IF p = "a.txt" THEN CompressThreshold ELSE CompressThreshold + 1
Algorithms == {"md5", "sha256"}
ThreadCounts == {1, 2}                     \* --threads values tried

\* bytes of a file: raw content, gzip stream of a content, or garbage
Raw(c) == [enc |-> "raw", c |-> c]
Gzip(c) == [enc |-> "gz", c |-> c]
Garbage == [enc |-> "bad", c |-> 0]
Missing == [enc |-> "none", c |-> 0]

NoFile == [size |-> 0 - 1, mtime |-> 0, content |-> 0]

\* hashlib digests of a byte string
Md5(bytes) == [alg |-> "md5", of |-> bytes]
Sha256(bytes) == [alg |-> "sha256", of |-> bytes]
CalculateHash(bytes) == [md5 |-> Md5(bytes), sha256 |-> Sha256(bytes)]

NoHash == [path |-> "", size |-> 0 - 1, mtime |-> 0,
           md5 |-> Md5(Missing), sha256 |-> Sha256(Missing)]
EmptyTable == [p \in Paths |-> NoHash]
Keys(table) == {p \in Paths : table[p] # NoHash}

FileHash(p, f) ==
    [path |-> p, size |-> f.size, mtime |-> f.mtime,
     md5 |-> CalculateHash(Raw(f.content)).md5,
     sha256 |-> CalculateHash(Raw(f.content)).sha256]

\* destination artifact names: the path itself, or the path with ".gz" appended
Plain(p) == <<p, "">>
WithGzSuffix(p) == <<p, ".gz">>
Artifacts == {Plain(p) : p \in Paths} \cup {WithGzSuffix(p) : p \in Paths}

BackupManifest(id) ==
    [backup_id |-> id, files_backed_up |-> 0, files_skipped |-> 0,
     files_removed |-> 0, bytes_transferred |-> 0, total_size |-> 0,
     errors |-> <<>>]

\* a JSON file on disk: absent, truncated by open(path, 'w'), or fully written
AbsentFile(blank) == [state |-> "absent", data |-> blank]
TruncatedFile(blank) == [state |-> "empty", data |-> blank]
WrittenFile(d) == [state |-> "full", data |-> d]

VARIABLES
    src,              \* source tree: path -> file or NoFile
    dstDirs,          \* directories that exist at the destination
    dstFiles,         \* destination artifacts: artifact -> bytes
    manifestFile,     \* .backup_manifest.json
    hashesFile,       \* .backup_hashes.json
    pc,               \* position of the main thread in run()
    opts,             \* constructor arguments of the BackupUtility
    manifest,         \* self.manifest
    previous_hashes,  \* self.previous_hashes
    current_hashes,   \* self.current_hashes
    files,            \* the list _collect_files returned
    hashTask,         \* digest phase futures: path -> status
    hashResult,       \* digest phase results: path -> FileHash or NoHash
    copySet,          \* files_to_backup
    copyTask,         \* copy phase futures: path -> status
    copyResult,       \* copy phase results: path -> BOOLEAN
    copyIO,           \* path -> what the file system did to its copy task
    appending,        \* path -> the worker's place in `with self.lock:`, if there
    outcome,          \* how the last run() ended: returned, interrupted, raised
    exit_code,        \* what main returned for the last invocation
    verify_result,    \* what verify_backup returned last
    verify_prev,      \* what the verify_backup call before that one returned
    verify_exit,      \* what main returned for the last --verify invocation
    start,            \* the file system when the current run started
    prev,             \* the run before the current one
    runs,             \* invocations of run() so far
    interrupted_at,   \* where in run() the KeyboardInterrupt was raised, if any
    scan_fault,       \* what went wrong in the scan of the current run, if anything
    damaged,          \* an artifact was damaged since the last run started
    events            \* events counted against MaxEvents so far

fsVars == <<src, dstDirs, dstFiles, manifestFile, hashesFile>>
destVars == <<dstDirs, dstFiles, manifestFile, hashesFile>>
runVars == <<pc, opts, manifest, previous_hashes, current_hashes, files,
             hashTask, hashResult, copySet, copyTask, copyResult, copyIO,
             appending, outcome, exit_code>>
histVars == <<start, prev, runs, interrupted_at, scan_fault, damaged>>
verifyVars == <<verify_result, verify_prev, verify_exit>>
envVars == <<events, verifyVars>>
vars == <<fsVars, runVars, histVars, envVars>>

NoTasks == [p \in Paths |-> "none"]
NoOpts == [compress |-> FALSE, checksum_algorithm |-> "sha256",
           threads |-> 1, dry_run |-> FALSE]
Options == [compress : BOOLEAN, checksum_algorithm : Algorithms,
            threads : ThreadCounts, dry_run : BOOLEAN]

Snapshot == [src |-> src, dstDirs |-> dstDirs, dstFiles |-> dstFiles,
             manifestFile |-> manifestFile, hashesFile |-> hashesFile]
NoRun == [opts |-> NoOpts, manifest |-> BackupManifest(0), outcome |-> "none",
          exit_code |-> 0 - 1, current_hashes |-> EmptyTable,
          start |-> [src |-> [p \in Paths |-> NoFile], dstDirs |-> {},
                     dstFiles |-> [a \in Artifacts |-> Missing],
                     manifestFile |-> AbsentFile(BackupManifest(0)),
                     hashesFile |-> AbsentFile(EmptyTable)]]

NoFault == [kind |-> "none", at |-> ""]

Abs(x) == IF x < 0 THEN 0 - x ELSE x
RunningTasks == {p \in Paths : hashTask[p] \in {"running", "appending"}
                               \/ copyTask[p] \in {"running", "appending"}}
PendingTasks == {p \in Paths : hashTask[p] \in {"queued", "running", "appending"}
                               \/ copyTask[p] \in {"queued", "running", "appending"}}

\* a worker inside `with self.lock:` of an except clause; manifest.errors.append
\* is taken as a read of the list followed by a write of the longer list
NotAppending == [held |-> FALSE, read |-> <<>>]
Appending(errors) == [held |-> TRUE, read |-> errors]
FaultBudget(failed) == IF failed THEN events < MaxEvents ELSE TRUE
Charge(failed) == IF failed THEN events + 1 ELSE events

\* ------------------------------------------------------------ construction
\* __init__: self.previous_hashes = {}; run() loads the previous manifest only
\* to print a message and never fills previous_hashes.
LoadPreviousManifest(file) == IF file.state = "full" THEN file.data ELSE BackupManifest(0)
PreviousHashesAtStart(file) == EmptyTable

Init ==
    /\ src = [p \in Paths |-> [size |-> InitialSize(p), mtime |-> 0, content |-> 1]]
    /\ dstDirs \in {{}, Dirs}
    /\ dstFiles = [a \in Artifacts |-> Missing]
    /\ manifestFile = AbsentFile(BackupManifest(0))
    /\ hashesFile = AbsentFile(EmptyTable)
    /\ pc = "idle"
    /\ opts = NoOpts
    /\ manifest = BackupManifest(0)
    /\ previous_hashes = EmptyTable
    /\ current_hashes = EmptyTable
    /\ files = <<>>
    /\ hashTask = NoTasks
    /\ hashResult = EmptyTable
    /\ copySet = {}
    /\ copyTask = NoTasks
    /\ copyResult = [p \in Paths |-> FALSE]
    /\ copyIO = [p \in Paths |-> "none"]
    /\ appending = [p \in Paths |-> NotAppending]
    /\ outcome = "none"
    /\ exit_code = 0 - 1
    /\ verify_result = "none"
    /\ verify_prev = "none"
    /\ verify_exit = 0 - 1
    /\ start = NoRun.start
    /\ prev = NoRun
    /\ runs = 0
    /\ interrupted_at = ""
    /\ scan_fault = NoFault
    /\ damaged = FALSE
    /\ events = 0

\* main constructs the BackupUtility and calls run(), up to the scan
StartRun(o) ==
    /\ pc = "idle"
    /\ FaultBudget(runs >= 1)
    /\ events' = Charge(runs >= 1)
    \* later invocations repeat the first one's --threads and --algorithm
    /\ runs >= 1 => /\ o.threads = opts.threads
                    /\ o.checksum_algorithm = opts.checksum_algorithm
    /\ prev' = [opts |-> opts, manifest |-> manifest, outcome |-> outcome,
                exit_code |-> exit_code, current_hashes |-> current_hashes,
                start |-> start]
    /\ start' = Snapshot
    /\ runs' = runs + 1
    /\ interrupted_at' = ""
    /\ scan_fault' = NoFault
    /\ damaged' = FALSE
    /\ opts' = o
    /\ manifest' = BackupManifest(runs + 1)
    /\ previous_hashes' = PreviousHashesAtStart(hashesFile)
    /\ current_hashes' = EmptyTable
    /\ files' = <<>>
    /\ hashTask' = NoTasks
    /\ hashResult' = EmptyTable
    /\ copySet' = {}
    /\ copyTask' = NoTasks
    /\ copyResult' = [p \in Paths |-> FALSE]
    /\ copyIO' = [p \in Paths |-> "none"]
    /\ appending' = [p \in Paths |-> NotAppending]
    /\ outcome' = "none"
    /\ exit_code' = 0 - 1
    /\ verify_result' = "none"
    /\ verify_prev' = "none"
    /\ verify_exit' = 0 - 1
    /\ pc' = "scan"
    /\ UNCHANGED fsVars

\* ------------------------------------------------------------------- scan
ScanFaults(tree) ==
    {NoFault}
    \cup {[kind |-> k, at |-> p] : k \in {"perm", "oserr"},
                                   p \in {q \in Paths : tree[q] # NoFile}}
    \cup {[kind |-> "dir", at |-> d] : d \in Dirs}

\* _collect_files: os.walk skips a directory it cannot list without raising;
\* filepath.stat() raising PermissionError ends the walk with an error entry,
\* any other OSError leaves run().
RECURSIVE Walk(_, _, _, _)
Walk(i, tree, fault, acc) ==
    IF i > Len(WalkOrder) THEN acc
    ELSE LET p == WalkOrder[i] IN
         IF tree[p] = NoFile \/ (fault.kind = "dir" /\ fault.at \in Ancestors(Dir(p)))
         THEN Walk(i + 1, tree, fault, acc)
         ELSE IF fault.kind = "perm" /\ fault.at = p
         THEN [acc EXCEPT !.files = Append(@, p),
                          !.errors = Append(@, <<"Cannot access directory", p>>)]
         ELSE IF fault.kind = "oserr" /\ fault.at = p
         THEN [acc EXCEPT !.files = Append(@, p), !.raised = TRUE]
         ELSE Walk(i + 1, tree, fault,
                   [acc EXCEPT !.files = Append(@, p),
                               !.total_size = @ + tree[p].size])

CollectFiles(tree, fault) ==
    Walk(1, tree, fault,
         [files |-> <<>>, total_size |-> 0, errors |-> <<>>, raised |-> FALSE])

Range(s) == {s[i] : i \in 1..Len(s)}

\* run(): scan, create the destination root, submit the digest tasks
Scan(fault) ==
    /\ pc = "scan"
    /\ FaultBudget(fault # NoFault)
    /\ events' = Charge(fault # NoFault)
    /\ scan_fault' = fault
    /\ LET r == CollectFiles(src, fault) IN
       /\ manifest' = [manifest EXCEPT !.total_size = @ + r.total_size,
                                       !.errors = @ \o r.errors]
       /\ IF r.raised
          THEN /\ pc' = "exit"
               /\ outcome' = "raised"
               /\ exit_code' = 1
               /\ UNCHANGED <<files, hashTask, dstDirs>>
          ELSE /\ pc' = "digest"
               /\ files' = r.files
               /\ dstDirs' = IF opts.dry_run THEN dstDirs ELSE dstDirs \cup {RootDir}
               /\ hashTask' = [p \in Paths |->
                                 IF p \in Range(r.files) THEN "queued" ELSE "none"]
               /\ UNCHANGED <<outcome, exit_code>>
    /\ UNCHANGED <<src, dstFiles, manifestFile, hashesFile, opts, previous_hashes,
                   current_hashes, hashResult, copySet, copyTask, copyResult, copyIO, appending,
                   start, prev, runs, interrupted_at, damaged, verifyVars>>

\* ----------------------------------------------------------- digest phase
\* mutant: a pool that starts a thread for every submitted task
WorkerFreeUnbounded == TRUE

\* ThreadPoolExecutor(max_workers=self.threads): a queued task is taken only by
\* a worker that is not executing another one
WorkerFree == Cardinality(RunningTasks) < opts.threads

\* mutant: the except clauses append without taking the lock
LockFreeAlways == TRUE

\* self.lock can be acquired: no worker is inside a `with self.lock:`
LockFree == \A q \in Paths : ~appending[q].held

\* a pool worker takes a queued _hash_file task
HashStart(p) ==
    /\ hashTask[p] = "queued"
    /\ WorkerFree
    /\ hashTask' = [hashTask EXCEPT ![p] = "running"]
    /\ UNCHANGED <<fsVars, pc, opts, manifest, previous_hashes, current_hashes,
                   files, hashResult, copySet, copyTask, copyResult, copyIO, appending, outcome,
                   exit_code, histVars, envVars>>

\* _hash_file
HashFile(p, tree, readable) ==
    IF readable /\ tree[p] # NoFile THEN FileHash(p, tree[p]) ELSE NoHash

\* mutant: the exception swallowed without an entry
HashErrorsSilent(errors, p, result) == errors

\* mutant: the new entry replaces the list
HashErrorsOverwriting(errors, p, result) ==
    IF result = NoHash THEN <<<<"Cannot hash", p>>>> ELSE errors

\* _hash_file: what its except clause adds to manifest.errors
HashErrors(errors, p, result) ==
    IF result = NoHash THEN Append(errors, <<"Cannot hash", p>>) ELSE errors

HashFinish(p, readable) ==
    /\ hashTask[p] = "running"
    /\ FaultBudget(~readable)
    /\ events' = Charge(~readable)
    /\ hashResult' = [hashResult EXCEPT ![p] = HashFile(p, src, readable)]
    /\ IF HashFile(p, src, readable) # NoHash
       THEN /\ hashTask' = [hashTask EXCEPT ![p] = "finished"]
            /\ UNCHANGED appending
       ELSE /\ LockFree
            /\ hashTask' = [hashTask EXCEPT ![p] = "appending"]
            /\ appending' = [appending EXCEPT ![p] = Appending(manifest.errors)]
    /\ UNCHANGED <<fsVars, pc, opts, manifest, previous_hashes, current_hashes,
                   files, copySet, copyTask, copyResult, copyIO, outcome, exit_code,
                   histVars, verifyVars>>

\* _hash_file: the append inside `with self.lock:`, the release, return None
HashAppend(p) ==
    /\ hashTask[p] = "appending"
    /\ manifest' = [manifest EXCEPT
                      !.errors = HashErrors(appending[p].read, p, hashResult[p])]
    /\ appending' = [appending EXCEPT ![p] = NotAppending]
    /\ hashTask' = [hashTask EXCEPT ![p] = "finished"]
    /\ UNCHANGED <<fsVars, pc, opts, previous_hashes, current_hashes, files,
                   hashResult, copySet, copyTask, copyResult, copyIO, outcome, exit_code,
                   histVars, envVars>>

\* mutant: the table replaced by the last result instead of updated
StoreHashLastOnly(table, result) ==
    IF result # NoHash THEN [EmptyTable EXCEPT ![result.path] = result] ELSE table

\* run(): a result that is not None goes into self.current_hashes
StoreHash(table, result) ==
    IF result # NoHash THEN [table EXCEPT ![result.path] = result] ELSE table

\* run(): one iteration of the as_completed loop of the digest phase
HashCollect(p) ==
    /\ pc = "digest"
    /\ hashTask[p] = "finished"
    /\ hashTask' = [hashTask EXCEPT ![p] = "collected"]
    /\ current_hashes' = StoreHash(current_hashes, hashResult[p])
    /\ UNCHANGED <<fsVars, pc, opts, manifest, previous_hashes, files, hashResult,
                   copySet, copyTask, copyResult, copyIO, appending, outcome, exit_code, histVars,
                   envVars>>

\* ------------------------------------------------------------------- diff
\* mutant: the tolerance test written with >=
NeedsBackupInclusiveTolerance(file_hash, table, algorithm) ==
    IF table[file_hash.path] = NoHash THEN TRUE
    ELSE LET prv == table[file_hash.path] IN
         IF prv.size # file_hash.size THEN TRUE
         ELSE IF Abs(prv.mtime - file_hash.mtime) >= MTimeTolerance THEN TRUE
         ELSE IF algorithm = "md5" THEN prv.md5 # file_hash.md5
         ELSE prv.sha256 # file_hash.sha256

\* mutant: a path with no previous entry is not selected
NeedsBackupSkippingNew(file_hash, table, algorithm) ==
    IF table[file_hash.path] = NoHash THEN FALSE
    ELSE LET prv == table[file_hash.path] IN
         IF prv.size # file_hash.size THEN TRUE
         ELSE IF Abs(prv.mtime - file_hash.mtime) > MTimeTolerance THEN TRUE
         ELSE IF algorithm = "md5" THEN prv.md5 # file_hash.md5
         ELSE prv.sha256 # file_hash.sha256

\* _needs_backup
NeedsBackup(file_hash, table, algorithm) ==
    IF table[file_hash.path] = NoHash THEN TRUE
    ELSE LET prv == table[file_hash.path] IN
         IF prv.size # file_hash.size THEN TRUE
         ELSE IF Abs(prv.mtime - file_hash.mtime) > MTimeTolerance THEN TRUE
         ELSE IF algorithm = "md5" THEN prv.md5 # file_hash.md5
         ELSE prv.sha256 # file_hash.sha256

FilesToBackup(current, table, algorithm) ==
    {p \in Keys(current) : NeedsBackup(current[p], table, algorithm)}

\* mutant: the subtraction forgotten
SkippedCountAll(current, todo) == Cardinality(Keys(current))

\* run(): self.manifest.files_skipped
SkippedCount(current, todo) == Cardinality(Keys(current)) - Cardinality(todo)

\* mutant: the copy tasks submitted without waiting for the digest pool
DiffEarly ==
    /\ pc = "digest"
    /\ LET todo == FilesToBackup(current_hashes, previous_hashes,
                                 opts.checksum_algorithm) IN
       /\ copySet' = todo
       /\ manifest' = [manifest EXCEPT
                         !.files_skipped = SkippedCount(current_hashes, todo)]
       /\ copyTask' = [p \in Paths |-> IF p \in todo THEN "queued" ELSE "none"]
       /\ pc' = IF todo # {} THEN "copy" ELSE "prune"
    /\ UNCHANGED <<fsVars, opts, previous_hashes, current_hashes, files, hashTask,
                   hashResult, copyResult, copyIO, appending, outcome, exit_code, histVars, envVars>>

\* run(): the digest pool has drained; choose the files to copy and submit them
Diff ==
    /\ pc = "digest"
    /\ \A p \in Range(files) : hashTask[p] = "collected"
    /\ LET todo == FilesToBackup(current_hashes, previous_hashes,
                                 opts.checksum_algorithm) IN
       /\ copySet' = todo
       /\ manifest' = [manifest EXCEPT
                         !.files_skipped = SkippedCount(current_hashes, todo)]
       /\ copyTask' = [p \in Paths |-> IF p \in todo THEN "queued" ELSE "none"]
       /\ pc' = IF todo # {} THEN "copy" ELSE "prune"
    /\ UNCHANGED <<fsVars, opts, previous_hashes, current_hashes, files, hashTask,
                   hashResult, copyResult, copyIO, appending, outcome, exit_code, histVars, envVars>>

\* ------------------------------------------------------------- copy phase
\* mutant: the size test written with >=
StoredCompressedInclusive(file_hash, compress) ==
    compress /\ file_hash.size >= CompressThreshold

\* _backup_file: where the artifact is written
StoredCompressed(file_hash, compress) == compress /\ file_hash.size > CompressThreshold
CopyTarget(file_hash, compress) ==
    IF StoredCompressed(file_hash, compress)
    THEN WithGzSuffix(file_hash.path) ELSE Plain(file_hash.path)
\* _backup_file: the bytes a faultless write leaves there
CopyBytes(file_hash, f, compress) ==
    IF StoredCompressed(file_hash, compress) THEN Gzip(f.content) ELSE Raw(f.content)
\* _backup_file: the file whose digest is compared with the source digest
VerifiedArtifact(file_hash, compress) ==
    IF ~compress THEN CopyTarget(file_hash, compress) ELSE Plain(file_hash.path)
\* mutant: the comparison left out
DigestMatchesAlways(dest_hash, file_hash, algorithm) == TRUE

\* _backup_file: the digest comparison of the configured algorithm
DigestMatches(dest_hash, file_hash, algorithm) ==
    IF algorithm = "md5" THEN dest_hash.md5 = file_hash.md5
    ELSE dest_hash.sha256 = file_hash.sha256
\* _backup_file: "ok", or the error its except clause records
PostWriteCheck(file_hash, dest, compress, algorithm) ==
    LET a == VerifiedArtifact(file_hash, compress) IN
    IF dest[a] = Missing THEN "No such file"
    ELSE IF DigestMatches(CalculateHash(dest[a]), file_hash, algorithm) THEN "ok"
    ELSE "Hash mismatch"

\* a pool worker takes a queued _backup_file task and creates the parent
\* directories, which happens before the dry_run test
CopyStart(p, mkdir_ok) ==
    /\ copyTask[p] = "queued"
    /\ WorkerFree
    /\ FaultBudget(~mkdir_ok)
    /\ events' = Charge(~mkdir_ok)
    /\ IF mkdir_ok
       THEN /\ dstDirs' = dstDirs \cup Ancestors(Dir(p))
            /\ copyTask' = [copyTask EXCEPT ![p] = "running"]
            /\ UNCHANGED <<copyResult, copyIO, appending>>
       ELSE /\ LockFree
            /\ copyTask' = [copyTask EXCEPT ![p] = "appending"]
            /\ copyResult' = [copyResult EXCEPT ![p] = FALSE]
            /\ copyIO' = [copyIO EXCEPT ![p] = "mkdir"]
            /\ appending' = [appending EXCEPT ![p] = Appending(manifest.errors)]
            /\ UNCHANGED dstDirs
    /\ UNCHANGED <<src, dstFiles, manifestFile, hashesFile, pc, opts, manifest,
                   previous_hashes, current_hashes, files, hashTask, hashResult,
                   copySet, outcome, exit_code, histVars, verifyVars>>

WriteOutcomes == {"ok", "corrupt", "oserror"}

\* the rest of _backup_file: write, re-digest, compare
CopyFinish(p, w) ==
    /\ copyTask[p] = "running"
    /\ IF opts.dry_run THEN w = "ok" ELSE TRUE
    /\ FaultBudget(w # "ok")
    /\ events' = Charge(w # "ok")
    /\ copyIO' = [copyIO EXCEPT ![p] = w]
    /\ LET h == current_hashes[p]
           target == CopyTarget(h, opts.compress)
           written == IF w = "oserror" \/ src[p] = NoFile THEN dstFiles
                      ELSE [dstFiles EXCEPT ![target] =
                              IF w = "corrupt" THEN Garbage
                              ELSE CopyBytes(h, src[p], opts.compress)]
           check == IF w = "oserror" \/ src[p] = NoFile THEN "Write failed"
                    ELSE PostWriteCheck(h, written, opts.compress,
                                        opts.checksum_algorithm)
       IN IF opts.dry_run
          THEN /\ copyResult' = [copyResult EXCEPT ![p] = TRUE]
               /\ copyTask' = [copyTask EXCEPT ![p] = "finished"]
               /\ UNCHANGED <<dstFiles, appending>>
          ELSE /\ dstFiles' = written
               /\ copyResult' = [copyResult EXCEPT ![p] = (check = "ok")]
               /\ IF check = "ok"
                  THEN /\ copyTask' = [copyTask EXCEPT ![p] = "finished"]
                       /\ UNCHANGED appending
                  ELSE /\ LockFree
                       /\ copyTask' = [copyTask EXCEPT ![p] = "appending"]
                       /\ appending' = [appending EXCEPT
                                          ![p] = Appending(manifest.errors)]
    /\ UNCHANGED <<src, dstDirs, manifestFile, hashesFile, pc, opts, manifest,
                   previous_hashes, current_hashes, files, hashTask, hashResult,
                   copySet, outcome, exit_code, histVars, verifyVars>>

\* _backup_file: the append inside `with self.lock:`, the release, return False
CopyAppend(p) ==
    /\ copyTask[p] = "appending"
    /\ manifest' = [manifest EXCEPT
                      !.errors = Append(appending[p].read, <<"Backup failed", p>>)]
    /\ appending' = [appending EXCEPT ![p] = NotAppending]
    /\ copyTask' = [copyTask EXCEPT ![p] = "finished"]
    /\ UNCHANGED <<fsVars, pc, opts, previous_hashes, current_hashes, files,
                   hashTask, hashResult, copySet, copyResult, copyIO, outcome, exit_code,
                   histVars, envVars>>

\* mutant: the result of the copy task not looked at
CountCopyRegardless(m, ok, file_hash) ==
    [m EXCEPT !.files_backed_up = @ + 1,
              !.bytes_transferred = @ + file_hash.size]

\* run(): the counters after one result of the copy loop
CountCopy(m, ok, file_hash) ==
    IF ok THEN [m EXCEPT !.files_backed_up = @ + 1,
                         !.bytes_transferred = @ + file_hash.size]
    ELSE m

\* mutant: the failure of a copy task raised again by future.result()
CopyCollectRaising(p) ==
    /\ pc = "copy"
    /\ copyTask[p] = "finished"
    /\ copyTask' = [copyTask EXCEPT ![p] = "collected"]
    /\ manifest' = CountCopy(manifest, copyResult[p], current_hashes[p])
    /\ IF copyResult[p]
       THEN /\ pc' = IF \A q \in copySet \ {p} : copyTask[q] = "collected"
                     THEN "prune" ELSE "copy"
            /\ UNCHANGED <<outcome, exit_code>>
       ELSE /\ pc' = "exit"
            /\ outcome' = "raised"
            /\ exit_code' = 1
    /\ UNCHANGED <<fsVars, opts, previous_hashes, current_hashes, files, hashTask,
                   hashResult, copySet, copyResult, copyIO, appending, histVars, envVars>>

\* run(): one iteration of the as_completed loop of the copy phase
CopyCollect(p) ==
    /\ pc = "copy"
    /\ copyTask[p] = "finished"
    /\ copyTask' = [copyTask EXCEPT ![p] = "collected"]
    /\ manifest' = CountCopy(manifest, copyResult[p], current_hashes[p])
    /\ pc' = IF \A q \in copySet \ {p} : copyTask[q] = "collected"
             THEN "prune" ELSE "copy"
    /\ UNCHANGED <<fsVars, opts, previous_hashes, current_hashes, files, hashTask,
                   hashResult, copySet, copyResult, copyIO, appending, outcome, exit_code, histVars,
                   envVars>>

\* ------------------------------------------------------------------ prune
\* _remove_deleted_files: the artifact it looks for
PruneTarget(old_path, compress) ==
    IF compress THEN WithGzSuffix(old_path) ELSE Plain(old_path)
ObsoletePaths(table, current) == Keys(table) \ Keys(current)

\* mutant: the first unlink that fails ends the loop
RECURSIVE RemoveDeletedFilesStopping(_, _, _, _, _, _)
RemoveDeletedFilesStopping(i, obsolete, failing, compress, dry_run, acc) ==
    IF i > Len(WalkOrder) THEN acc
    ELSE LET old_path == WalkOrder[i]
             dest_file == PruneTarget(old_path, compress)
         IN IF old_path \notin obsolete
            THEN RemoveDeletedFilesStopping(i + 1, obsolete, failing, compress,
                                            dry_run, acc)
            ELSE IF ~dry_run /\ acc.dest[dest_file] # Missing
            THEN IF old_path \in failing
                 THEN [acc EXCEPT !.errors = Append(@, <<"Cannot remove", old_path>>)]
                 ELSE RemoveDeletedFilesStopping(i + 1, obsolete, failing, compress,
                        dry_run,
                        [acc EXCEPT !.removed = @ + 1,
                                    !.dest = [@ EXCEPT ![dest_file] = Missing]])
            ELSE RemoveDeletedFilesStopping(i + 1, obsolete, failing, compress,
                   dry_run, [acc EXCEPT !.removed = @ + 1])

\* _remove_deleted_files over the previous table, in its key order; `failing`
\* are the paths whose unlink raises OSError
RECURSIVE RemoveDeletedFiles(_, _, _, _, _, _)
RemoveDeletedFiles(i, obsolete, failing, compress, dry_run, acc) ==
    IF i > Len(WalkOrder) THEN acc
    ELSE LET old_path == WalkOrder[i]
             dest_file == PruneTarget(old_path, compress)
         IN IF old_path \notin obsolete
            THEN RemoveDeletedFiles(i + 1, obsolete, failing, compress, dry_run, acc)
            ELSE IF ~dry_run /\ acc.dest[dest_file] # Missing
            THEN IF old_path \in failing
                 THEN RemoveDeletedFiles(i + 1, obsolete, failing, compress, dry_run,
                        [acc EXCEPT !.errors = Append(@, <<"Cannot remove", old_path>>)])
                 ELSE RemoveDeletedFiles(i + 1, obsolete, failing, compress, dry_run,
                        [acc EXCEPT !.removed = @ + 1,
                                    !.dest = [@ EXCEPT ![dest_file] = Missing]])
            ELSE RemoveDeletedFiles(i + 1, obsolete, failing, compress, dry_run,
                   [acc EXCEPT !.removed = @ + 1])

Prune(failing) ==
    /\ pc = "prune"
    /\ failing \subseteq {p \in ObsoletePaths(previous_hashes, current_hashes) :
                            ~opts.dry_run
                            /\ dstFiles[PruneTarget(p, opts.compress)] # Missing}
    /\ events + Cardinality(failing) <= MaxEvents
    /\ events' = events + Cardinality(failing)
    /\ LET r == RemoveDeletedFiles(1, ObsoletePaths(previous_hashes, current_hashes),
                                   failing, opts.compress, opts.dry_run,
                                   [removed |-> 0, errors |-> <<>>, dest |-> dstFiles])
       IN /\ dstFiles' = r.dest
          /\ manifest' = [manifest EXCEPT !.files_removed = r.removed,
                                          !.errors = @ \o r.errors]
    /\ pc' = IF opts.dry_run THEN "summary" ELSE "save_manifest"
    /\ UNCHANGED <<src, dstDirs, manifestFile, hashesFile, opts, previous_hashes,
                   current_hashes, files, hashTask, hashResult, copySet, copyTask,
                   copyResult, copyIO, appending, outcome, exit_code, histVars, verifyVars>>

\* ---------------------------------------------------------------- persist
\* _save_manifest: open(manifest_path, 'w') truncates the file, or raises
SaveManifestOpen(ok) ==
    /\ pc = "save_manifest"
    /\ FaultBudget(~ok)
    /\ events' = Charge(~ok)
    /\ IF ok
       THEN /\ manifestFile' = TruncatedFile(BackupManifest(0))
            /\ pc' = "write_manifest"
            /\ UNCHANGED <<outcome, exit_code>>
       ELSE /\ pc' = "exit"
            /\ outcome' = "raised"
            /\ exit_code' = 1
            /\ UNCHANGED manifestFile
    /\ UNCHANGED <<src, dstDirs, dstFiles, hashesFile, opts, manifest,
                   previous_hashes, current_hashes, files, hashTask, hashResult,
                   copySet, copyTask, copyResult, copyIO, appending, histVars, verifyVars>>

\* _save_manifest: json.dump and close
SaveManifestWrite ==
    /\ pc = "write_manifest"
    /\ manifestFile' = WrittenFile(manifest)
    /\ pc' = "save_hashes"
    /\ UNCHANGED <<src, dstDirs, dstFiles, hashesFile, opts, manifest,
                   previous_hashes, current_hashes, files, hashTask, hashResult,
                   copySet, copyTask, copyResult, copyIO, appending, outcome, exit_code, histVars,
                   envVars>>

\* _save_hashes: open(hashes_path, 'w') truncates the file, or raises
SaveHashesOpen(ok) ==
    /\ pc = "save_hashes"
    /\ FaultBudget(~ok)
    /\ events' = Charge(~ok)
    /\ IF ok
       THEN /\ hashesFile' = TruncatedFile(EmptyTable)
            /\ pc' = "write_hashes"
            /\ UNCHANGED <<outcome, exit_code>>
       ELSE /\ pc' = "exit"
            /\ outcome' = "raised"
            /\ exit_code' = 1
            /\ UNCHANGED hashesFile
    /\ UNCHANGED <<src, dstDirs, dstFiles, manifestFile, opts, manifest,
                   previous_hashes, current_hashes, files, hashTask, hashResult,
                   copySet, copyTask, copyResult, copyIO, appending, histVars, verifyVars>>

\* _save_hashes: json.dump of current_hashes and close
SaveHashesWrite ==
    /\ pc = "write_hashes"
    /\ hashesFile' = WrittenFile(current_hashes)
    /\ pc' = "summary"
    /\ UNCHANGED <<src, dstDirs, dstFiles, manifestFile, opts, manifest,
                   previous_hashes, current_hashes, files, hashTask, hashResult,
                   copySet, copyTask, copyResult, copyIO, appending, outcome, exit_code, histVars,
                   envVars>>

\* mutant: the error list not looked at
ExitStatusIgnoringErrors(m) == 0

\* main: the exit status of a run() that returned its manifest
ExitStatus(m) == IF Len(m.errors) = 0 THEN 0 ELSE 1

\* run() prints the summary and returns; main returns the exit status
Summary ==
    /\ pc = "summary"
    /\ pc' = "exit"
    /\ outcome' = "returned"
    /\ exit_code' = ExitStatus(manifest)
    /\ UNCHANGED <<fsVars, opts, manifest, previous_hashes, current_hashes, files,
                   hashTask, hashResult, copySet, copyTask, copyResult, copyIO, appending, histVars,
                   envVars>>

\* -------------------------------------------------------------- interrupt
RunPcs == {"scan", "digest", "copy", "prune", "save_manifest", "write_manifest",
           "save_hashes", "write_hashes", "summary"}

\* KeyboardInterrupt is raised in the main thread, anywhere inside run()
Interrupt ==
    /\ pc \in RunPcs
    /\ events < MaxEvents
    /\ events' = events + 1
    /\ pc' = "interrupted"
    /\ interrupted_at' = pc
    /\ UNCHANGED <<fsVars, opts, manifest, previous_hashes, current_hashes, files,
                   hashTask, hashResult, copySet, copyTask, copyResult, copyIO, appending, outcome,
                   exit_code, start, prev, runs, scan_fault, damaged, verifyVars>>

\* mutant: the interrupt reported like any other failure
InterruptedStatusAsFailure == ExitStatus([errors |-> <<"interrupted">>])

\* main: except KeyboardInterrupt
InterruptedStatus == ExitInterrupted

\* the executor's __exit__ waits for every submitted task, then main's
\* except KeyboardInterrupt clause returns 130
InterruptExit ==
    /\ pc = "interrupted"
    /\ PendingTasks = {}
    /\ pc' = "exit"
    /\ outcome' = "interrupted"
    /\ exit_code' = InterruptedStatus
    /\ UNCHANGED <<fsVars, opts, manifest, previous_hashes, current_hashes, files,
                   hashTask, hashResult, copySet, copyTask, copyResult, copyIO, appending, histVars,
                   envVars>>

\* sys.exit(main()): the process ends and its objects are gone; what stays
\* visible is the exit status and, for a run() that returned, what it printed
ProcessExit ==
    /\ pc = "exit"
    /\ pc' = "idle"
    /\ manifest' = IF outcome = "returned" THEN manifest ELSE BackupManifest(runs)
    /\ current_hashes' = IF outcome = "returned" THEN current_hashes ELSE EmptyTable
    /\ files' = <<>>
    /\ hashTask' = NoTasks
    /\ hashResult' = EmptyTable
    /\ copySet' = {}
    /\ copyTask' = NoTasks
    /\ copyResult' = [p \in Paths |-> FALSE]
    /\ copyIO' = [p \in Paths |-> "none"]
    /\ appending' = [p \in Paths |-> NotAppending]
    /\ UNCHANGED <<fsVars, opts, previous_hashes, outcome, exit_code, histVars,
                   envVars>>

\* ------------------------------------------------------------ verification
\* mutant: a missing artifact is skipped without failing the verification
VerifyBackupSkippingMissing(mfile, hfile, dest) ==
    IF mfile.state = "absent" THEN "fail"
    ELSE IF hfile.state = "absent" THEN "fail"
    ELSE IF hfile.state = "empty" THEN "raise"
    ELSE IF \A p \in Keys(hfile.data) :
              dest[Plain(p)] # Missing
              => /\ CalculateHash(dest[Plain(p)]).md5 = hfile.data[p].md5
                 /\ CalculateHash(dest[Plain(p)]).sha256 = hfile.data[p].sha256
         THEN "pass" ELSE "fail"

\* verify_backup
VerifyBackup(mfile, hfile, dest) ==
    IF mfile.state = "absent" THEN "fail"
    ELSE IF hfile.state = "absent" THEN "fail"
    ELSE IF hfile.state = "empty" THEN "raise"
    ELSE IF \A p \in Keys(hfile.data) :
              /\ dest[Plain(p)] # Missing
              /\ CalculateHash(dest[Plain(p)]).md5 = hfile.data[p].md5
              /\ CalculateHash(dest[Plain(p)]).sha256 = hfile.data[p].sha256
         THEN "pass" ELSE "fail"

\* main: the exit status of a --verify invocation; an exception verify_backup
\* does not catch ends the interpreter with status 1
VerifyExitStatus(result) == IF result = "pass" THEN 0 ELSE 1

\* mutant: a verification that deletes the artifacts it finds corrupted
VerifyDroppingCorrupted ==
    /\ pc = "idle"
    /\ runs >= 1
    /\ verify_prev = "none"
    /\ verify_prev' = verify_result
    /\ verify_result' = VerifyBackup(manifestFile, hashesFile, dstFiles)
    /\ verify_exit' = VerifyExitStatus(verify_result')
    /\ dstFiles' = [a \in Artifacts |->
                      IF dstFiles[a] = Garbage THEN Missing ELSE dstFiles[a]]
    /\ UNCHANGED <<src, dstDirs, manifestFile, hashesFile, runVars, histVars,
                   events>>

\* main --verify, at most twice between two changes of the destination
Verify ==
    /\ pc = "idle"
    /\ runs >= 1
    /\ verify_prev = "none"
    /\ verify_prev' = verify_result
    /\ verify_result' = VerifyBackup(manifestFile, hashesFile, dstFiles)
    /\ verify_exit' = VerifyExitStatus(verify_result')
    /\ UNCHANGED <<fsVars, runVars, histVars, events>>

\* ------------------------------------------------------------ environment
\* the user rewrites a source file between runs
ModifySource(p) ==
    /\ pc = "idle"
    /\ runs >= 1
    /\ events < MaxEvents
    /\ src[p] # NoFile
    /\ events' = events + 1
    /\ src' = [src EXCEPT ![p] = [@ EXCEPT !.content = @ + 1,
                                           !.mtime = @ + 2 * MTimeTolerance]]
    /\ UNCHANGED <<destVars, runVars, histVars, verifyVars>>

\* the user removes a source file between runs
DeleteSource(p) ==
    /\ pc = "idle"
    /\ runs >= 1
    /\ events < MaxEvents
    /\ src[p] # NoFile
    /\ events' = events + 1
    /\ src' = [src EXCEPT ![p] = NoFile]
    /\ UNCHANGED <<destVars, runVars, histVars, verifyVars>>

\* a destination artifact is damaged or lost between runs
DamageArtifact(a, bytes) ==
    /\ pc = "idle"
    /\ runs >= 1
    /\ events < MaxEvents
    /\ dstFiles[a] # Missing
    /\ events' = events + 1
    /\ dstFiles' = [dstFiles EXCEPT ![a] = bytes]
    /\ verify_result' = "none"
    /\ verify_prev' = "none"
    /\ verify_exit' = 0 - 1
    /\ damaged' = TRUE
    /\ UNCHANGED <<src, dstDirs, manifestFile, hashesFile, runVars, start, prev,
                   runs, interrupted_at, scan_fault>>

Next ==
    \/ \E o \in Options : StartRun(o)
    \/ \E f \in ScanFaults(src) : Scan(f)
    \/ \E p \in Paths : HashStart(p)
    \/ \E p \in Paths, readable \in BOOLEAN : HashFinish(p, readable)
    \/ \E p \in Paths : HashAppend(p)
    \/ \E p \in Paths : HashCollect(p)
    \/ Diff
    \/ \E p \in Paths, mkdir_ok \in BOOLEAN : CopyStart(p, mkdir_ok)
    \/ \E p \in Paths, w \in WriteOutcomes : CopyFinish(p, w)
    \/ \E p \in Paths : CopyAppend(p)
    \/ \E p \in Paths : CopyCollect(p)
    \/ \E failing \in SUBSET Paths : Prune(failing)
    \/ \E ok \in BOOLEAN : SaveManifestOpen(ok)
    \/ SaveManifestWrite
    \/ \E ok \in BOOLEAN : SaveHashesOpen(ok)
    \/ SaveHashesWrite
    \/ Summary
    \/ Interrupt
    \/ InterruptExit
    \/ ProcessExit
    \/ Verify
    \/ \E p \in Paths : ModifySource(p)
    \/ \E p \in Paths : DeleteSource(p)
    \/ \E a \in Artifacts, bytes \in {Garbage, Missing} : DamageArtifact(a, bytes)

Spec == Init /\ [][Next]_vars

\* ------------------------------------------------- the change detector alone
\* _needs_backup is a function of the FileHash, of self.previous_hashes and of
\* self.checksum_algorithm.  SpecNeeds starts run() where the digest phase has
\* ended, with every current and previous table over the values below, and takes
\* the step that applies _needs_backup to each current record.
NeedsMTimes == {0, MTimeTolerance, MTimeTolerance + 1}
NeedsRecords(p) ==
    [path : {p}, size : {CompressThreshold, CompressThreshold + 1},
     mtime : NeedsMTimes,
     md5 : {Md5(Raw(1)), Md5(Raw(2))}, sha256 : {Sha256(Raw(1)), Sha256(Raw(2))}]
NeedsTables ==
    {t \in [Paths -> UNION {NeedsRecords(p) : p \in Paths} \cup {NoHash}] :
        /\ \A p \in Paths : t[p] # NoHash => t[p].path = p
        /\ t["sub/b.txt"] \in {NoHash, FileHash("sub/b.txt", [size |-> CompressThreshold + 1,
                                                             mtime |-> 0, content |-> 1])}}

InitNeeds ==
    /\ src = [p \in Paths |-> [size |-> InitialSize(p), mtime |-> 0, content |-> 1]]
    /\ dstDirs = Dirs
    /\ dstFiles = [a \in Artifacts |-> Missing]
    /\ manifestFile = AbsentFile(BackupManifest(0))
    /\ hashesFile = AbsentFile(EmptyTable)
    /\ pc = "digest"
    /\ opts \in {o \in Options : ~o.compress /\ ~o.dry_run /\ o.threads = 1}
    /\ manifest = BackupManifest(1)
    /\ previous_hashes \in NeedsTables
    /\ current_hashes \in NeedsTables
    /\ files = WalkOrder
    /\ hashTask = [p \in Paths |-> "collected"]
    /\ hashResult = current_hashes
    /\ copySet = {}
    /\ copyTask = NoTasks
    /\ copyResult = [p \in Paths |-> FALSE]
    /\ copyIO = [p \in Paths |-> "none"]
    /\ appending = [p \in Paths |-> NotAppending]
    /\ outcome = "none"
    /\ exit_code = 0 - 1
    /\ verify_result = "none"
    /\ verify_prev = "none"
    /\ verify_exit = 0 - 1
    /\ start = NoRun.start
    /\ prev = NoRun
    /\ runs = 1
    /\ interrupted_at = ""
    /\ scan_fault = NoFault
    /\ damaged = FALSE
    /\ events = 0

NextNeeds == Diff

SpecNeeds == InitNeeds /\ [][NextNeeds]_vars

\* --------------------------------------------------------- the pruner alone
\* _remove_deleted_files is a function of self.previous_hashes, of
\* self.current_hashes, of the options and of the destination.  SpecPrune starts
\* run() where the copy phase has ended, with every previous and current table
\* over the records below and every set of artifacts present, and takes the
\* step that calls _remove_deleted_files.
PruneRecord(p) == FileHash(p, [size |-> InitialSize(p), mtime |-> 0, content |-> 1])
PruneTables == {t \in [Paths -> {PruneRecord(p) : p \in Paths} \cup {NoHash}] :
                  \A p \in Paths : t[p] # NoHash => t[p].path = p}
PruneDests == [Artifacts -> {Missing, Raw(1)}]

InitPrune ==
    /\ src = [p \in Paths |-> [size |-> InitialSize(p), mtime |-> 0, content |-> 1]]
    /\ dstDirs = Dirs
    /\ dstFiles \in PruneDests
    /\ manifestFile = AbsentFile(BackupManifest(0))
    /\ hashesFile = AbsentFile(EmptyTable)
    /\ pc = "prune"
    /\ opts \in {o \in Options : o.threads = 1 /\ o.checksum_algorithm = "sha256"}
    /\ manifest = BackupManifest(1)
    /\ previous_hashes \in PruneTables
    /\ current_hashes \in PruneTables
    /\ files = WalkOrder
    /\ hashTask = [p \in Paths |-> "collected"]
    /\ hashResult = current_hashes
    /\ copySet = {}
    /\ copyTask = NoTasks
    /\ copyResult = [p \in Paths |-> FALSE]
    /\ copyIO = [p \in Paths |-> "none"]
    /\ appending = [p \in Paths |-> NotAppending]
    /\ outcome = "none"
    /\ exit_code = 0 - 1
    /\ verify_result = "none"
    /\ verify_prev = "none"
    /\ verify_exit = 0 - 1
    /\ start = [NoRun.start EXCEPT !.src = src, !.dstDirs = dstDirs,
                                   !.dstFiles = dstFiles]
    /\ prev = NoRun
    /\ runs = 1
    /\ interrupted_at = ""
    /\ scan_fault = NoFault
    /\ damaged = FALSE
    /\ events = 0

NextPrune == \E failing \in SUBSET Paths : Prune(failing)

SpecPrune == InitPrune /\ [][NextPrune]_vars

\* ===================================================================== claims
SourceFiles(tree) == {p \in Paths : tree[p] # NoFile}
\* run() returned its manifest and main is about to exit
Returned == pc = "exit" /\ outcome = "returned"
\* the run before the current one returned, really wrote, and recorded no error
PrevCleanBackup ==
    /\ runs >= 2
    /\ prev.outcome = "returned"
    /\ ~prev.opts.dry_run
    /\ Len(prev.manifest.errors) = 0
\* nothing was injected: every event counted so far is a further invocation
NoEnvironmentEvent == events = runs - 1

\* C1: a backup that follows a completed non-dry-run backup of the same,
\* unchanged source tree on the same destination ends with files_backed_up = 0
\* and files_skipped = the number of files in the source tree.
C1_IdempotentSecondRun ==
    (Returned /\ PrevCleanBackup /\ NoEnvironmentEvent /\ start.src = prev.start.src)
    => /\ manifest.files_backed_up = 0
       /\ manifest.files_skipped = Cardinality(SourceFiles(start.src))

\* C2: when a file f that a completed run backed up is removed from the source
\* and a non-dry-run backup is rerun on the same destination, that run ends with
\* files_removed >= 1 and the artifact the earlier run wrote for f is gone.
C2_DeletionPropagates ==
    \A f \in Paths :
        (/\ Returned /\ ~opts.dry_run /\ PrevCleanBackup
         /\ prev.current_hashes[f] # NoHash
         /\ start.src[f] = NoFile)
        => /\ manifest.files_removed >= 1
           /\ dstFiles[CopyTarget(prev.current_hashes[f], prev.opts.compress)] = Missing

\* C3: _needs_backup selects a record exactly when its path has no previous
\* entry, or the size differs, or the mtimes differ by more than 1 ms, or the
\* digest of the configured algorithm differs.
DiffDone == pc \in {"copy", "prune"}
Changed(p) ==
    \/ previous_hashes[p] = NoHash
    \/ previous_hashes[p].size # current_hashes[p].size
    \/ previous_hashes[p].mtime - current_hashes[p].mtime > MTimeTolerance
    \/ current_hashes[p].mtime - previous_hashes[p].mtime > MTimeTolerance
    \/ /\ opts.checksum_algorithm = "md5"
       /\ previous_hashes[p].md5 # current_hashes[p].md5
    \/ /\ opts.checksum_algorithm = "sha256"
       /\ previous_hashes[p].sha256 # current_hashes[p].sha256
C3_ChangeDetection ==
    DiffDone => \A p \in Keys(current_hashes) : (p \in copySet) <=> Changed(p)
\* a file skipped although its mtime moved by exactly 1 ms and the digest that
\* is not configured differs, next to a file selected for its digest alone
C3_Witness ==
    /\ DiffDone
    /\ opts.checksum_algorithm = "md5"
    /\ Keys(current_hashes) = Paths /\ Keys(previous_hashes) = Paths
    /\ "a.txt" \notin copySet
    /\ previous_hashes["a.txt"].mtime - current_hashes["a.txt"].mtime = MTimeTolerance
    /\ previous_hashes["a.txt"].sha256 # current_hashes["a.txt"].sha256
    /\ "sub/b.txt" \notin copySet

\* C4: a dry run leaves the destination's files and directories and the
\* persisted manifest and digest table exactly as they were when it started.
C4_DryRunPurity ==
    (Returned /\ opts.dry_run /\ NoEnvironmentEvent)
    => /\ dstDirs = start.dstDirs
       /\ dstFiles = start.dstFiles
       /\ manifestFile = start.manifestFile
       /\ hashesFile = start.hashesFile

\* C5: on the same source tree, destination state and options, a dry run and a
\* real run report the same files_backed_up and the same files_removed.
SameInputs ==
    /\ start = prev.start
    /\ opts.compress = prev.opts.compress
    /\ opts.checksum_algorithm = prev.opts.checksum_algorithm
    /\ opts.threads = prev.opts.threads
C5_DryRunEquivalence ==
    (/\ Returned /\ runs >= 2 /\ prev.outcome = "returned" /\ NoEnvironmentEvent
     /\ prev.opts.dry_run /\ ~opts.dry_run /\ SameInputs)
    => /\ manifest.files_backed_up = prev.manifest.files_backed_up
       /\ manifest.files_removed = prev.manifest.files_removed

\* C6: after a non-dry-run backup that returned with an empty error list, with
\* or without compression, verify_backup on the manifest it wrote succeeds.
CleanBackupVerified ==
    /\ pc = "idle" /\ outcome = "returned" /\ ~opts.dry_run
    /\ Len(manifest.errors) = 0
    /\ ~damaged
    /\ verify_result # "none"
C6_VerifyRoundTrip == CleanBackupVerified => verify_result = "pass"
\* a compressing run that stored a file as .gz without error, then verified
C6_Witness ==
    /\ CleanBackupVerified
    /\ opts.compress
    /\ \E p \in Keys(current_hashes) :
         /\ StoredCompressed(current_hashes[p], opts.compress)
         /\ dstFiles[WithGzSuffix(p)] # Missing
    /\ verify_result = "pass"

\* C7: verify_backup fails whenever an entry of the persisted digest table has
\* no file at its recorded path or a file whose md5 or sha256 differs from the
\* record, and succeeds only when every entry has a file with both digests equal.
BadEntries ==
    {p \in Keys(hashesFile.data) :
        \/ dstFiles[Plain(p)] = Missing
        \/ Md5(dstFiles[Plain(p)]) # hashesFile.data[p].md5
        \/ Sha256(dstFiles[Plain(p)]) # hashesFile.data[p].sha256}
CopyFailures(m) ==
    Cardinality({i \in 1..Len(m.errors) : m.errors[i][1] = "Backup failed"})
C8_CounterSumOriginal ==
    Returned => manifest.files_backed_up + manifest.files_skipped
                = Cardinality(Keys(current_hashes))
\* C8 amended: at the summary files_backed_up + files_skipped + the number of
\* copy tasks that failed equals the number of files digested.
C8_CounterSum ==
    Returned => manifest.files_backed_up + manifest.files_skipped
                + CopyFailures(manifest) = Cardinality(Keys(current_hashes))
C8_Witness ==
    /\ Returned /\ ~opts.dry_run
    /\ manifest.files_backed_up >= 1
    /\ CopyFailures(manifest) >= 1

\* C9: a file written without corruption passes the post-write verification,
\* stored plain or stored gzip-compressed.
C9_PostWriteVerification ==
    \A p \in Paths :
        (/\ copyTask[p] \in {"finished", "collected"}
         /\ ~opts.dry_run
         /\ NoEnvironmentEvent
         /\ dstFiles[CopyTarget(current_hashes[p], opts.compress)]
            = CopyBytes(current_hashes[p], src[p], opts.compress))
        => copyResult[p]

\* C10 as stated: a run interrupted at any point before run() returns leaves
\* both persisted files as they were and exits with 130.
Interrupted == pc = "exit" /\ outcome = "interrupted"
PersistedUnchanged ==
    manifestFile = start.manifestFile /\ hashesFile = start.hashesFile
C10_InterruptNeverPersistsOriginal ==
    Interrupted => (PersistedUnchanged /\ exit_code = ExitInterrupted)
\* C10 amended: an interrupted run exits with 130, and it leaves both persisted
\* files as they were if the interrupt arrives before _save_manifest opens the
\* manifest.
BeforePersist == {"scan", "digest", "copy", "prune", "save_manifest"}
C10_InterruptBeforePersist ==
    Interrupted => /\ exit_code = ExitInterrupted
                   /\ interrupted_at \in BeforePersist => PersistedUnchanged
\* interrupted during the copy phase of a rerun, after a copy had been written
C10_Witness ==
    /\ Interrupted
    /\ interrupted_at = "copy"
    /\ dstFiles # start.dstFiles
    /\ manifestFile.state = "full"

\* C11: at every point of a run, a crash or interrupt in the persist stage
\* included, each of the two persisted files holds either the complete version
\* it had when the run started or the complete version this run writes, never
\* an empty or partly written file.
InRun == pc \in RunPcs \cup {"interrupted", "exit"}
C11_AtomicPersist ==
    InRun => /\ manifestFile \in {start.manifestFile, WrittenFile(manifest)}
             /\ hashesFile \in {start.hashesFile, WrittenFile(current_hashes)}

\* C12: a run without --dry-run that is not interrupted ends with both
\* persisted files written by it, with or without errors, and no failure in
\* the scan, the digest phase, the copy phase or the prune keeps run() from
\* going on to the persist stage.
WorkStages == {"scan", "digest", "copy", "prune"}
PersistedByThisRun ==
    /\ manifestFile = WrittenFile(manifest)
    /\ hashesFile = WrittenFile(current_hashes)
C12_AlwaysPersists ==
    /\ []((Returned /\ ~opts.dry_run) => PersistedByThisRun)
    /\ [][(pc \in WorkStages /\ ~opts.dry_run)
           => pc' \in WorkStages \cup {"save_manifest", "interrupted"}]_vars

\* C13: main returns 0 exactly when the backup returned with an empty error
\* list, 1 when it returned with at least one error, 130 when it was
\* interrupted; a --verify invocation returns 0 exactly when the verification
\* passed and 1 when it failed.
C13_ExitCodes ==
    /\ pc = "exit"
       => /\ exit_code = 0 <=> (outcome = "returned" /\ Len(manifest.errors) = 0)
          /\ (outcome = "returned" /\ Len(manifest.errors) >= 1) => exit_code = 1
          /\ outcome = "interrupted" => exit_code = ExitInterrupted
    /\ verify_result # "none"
       => /\ verify_exit = 0 <=> verify_result = "pass"
          /\ verify_result = "fail" => verify_exit = 1
\* a backup that ends clean with status 0 after one that ended with errors and
\* status 1
C13_Witness ==
    /\ Returned /\ Len(manifest.errors) = 0 /\ exit_code = 0
    /\ prev.outcome = "returned"
    /\ Len(prev.manifest.errors) >= 1
    /\ prev.exit_code = 1

\* C14: once the copy phase is over every submitted copy task has run and been
\* collected, each copy that failed (write error or digest mismatch after the
\* write) has exactly one error entry and each copy that succeeded has none,
\* and files_backed_up and bytes_transferred count the successful copies only.
CopyDone ==
    \/ pc \in {"prune", "save_manifest", "write_manifest", "save_hashes",
               "write_hashes", "summary"}
    \/ Returned
ErrorCount(m, entry) == Cardinality({i \in 1..Len(m.errors) : m.errors[i] = entry})
RECURSIVE BytesOf(_, _)
BytesOf(S, table) ==
    IF S = {} THEN 0
    ELSE LET p == CHOOSE q \in S : TRUE IN table[p].size + BytesOf(S \ {p}, table)
Copied == {p \in copySet : copyResult[p]}
C14_CopyFailureAccounting ==
    CopyDone
    => /\ \A p \in copySet :
            /\ copyTask[p] = "collected"
            /\ ErrorCount(manifest, <<"Backup failed", p>>)
               = IF copyResult[p] THEN 0 ELSE 1
       /\ manifest.files_backed_up = Cardinality(Copied)
       /\ manifest.bytes_transferred = BytesOf(Copied, current_hashes)
\* the copy of a.txt failed on a digest mismatch, the copy of sub/b.txt was
\* made all the same and is the only one counted
C14_Witness ==
    /\ CopyDone /\ ~opts.dry_run /\ ~opts.compress
    /\ copySet = Paths
    /\ ~copyResult["a.txt"]
    /\ dstFiles[Plain("a.txt")] = Garbage
    /\ copyResult["sub/b.txt"]
    /\ dstFiles[Plain("sub/b.txt")] = Raw(src["sub/b.txt"].content)
    /\ manifest.files_backed_up = 1
    /\ manifest.bytes_transferred = current_hashes["sub/b.txt"].size

\* C15: once the digest phase is over every scanned file has been digested or
\* has failed; a file whose digest failed has exactly one error entry, no
\* entry in the current digest table and no copy task, and a file whose
\* digest succeeded has its record in the table and no error entry.
DigestDone == pc = "copy" \/ CopyDone
C15_DigestFailure ==
    DigestDone
    => \A p \in Range(files) :
         /\ hashTask[p] = "collected"
         /\ IF hashResult[p] = NoHash
            THEN /\ ErrorCount(manifest, <<"Cannot hash", p>>) = 1
                 /\ current_hashes[p] = NoHash
                 /\ p \notin copySet
                 /\ copyTask[p] = "none"
            ELSE /\ ErrorCount(manifest, <<"Cannot hash", p>>) = 0
                 /\ current_hashes[p] = hashResult[p]
\* a.txt could not be read; sub/b.txt was digested after it and copied
C15_Witness ==
    /\ Returned /\ ~opts.dry_run
    /\ files = WalkOrder
    /\ hashResult["a.txt"] = NoHash
    /\ current_hashes["sub/b.txt"] # NoHash
    /\ copySet = {"sub/b.txt"}
    /\ manifest.files_backed_up = 1

\* C16: when a directory of the source tree cannot be opened, the scan records
\* an error, leaves out the files under that directory and collects every
\* other file of the tree.
C16_ScanFailure ==
    (pc = "digest" /\ scan_fault.kind = "dir")
    => /\ \E i \in 1..Len(manifest.errors) :
            manifest.errors[i][1] = "Cannot access directory"
       /\ Range(files) = {p \in SourceFiles(src) :
                            scan_fault.at \notin Ancestors(Dir(p))}

\* C17: when the unlink of an obsolete artifact fails, _remove_deleted_files
\* records one error for it, leaves it in place and does not count it, and it
\* still processes every other obsolete path: without --dry-run their
\* artifacts are gone, and files_removed counts exactly the obsolete paths
\* whose unlink did not fail.
PruneDone == pc \in {"save_manifest", "summary"}
Obsolete == ObsoletePaths(previous_hashes, current_hashes)
PruneFailed == {p \in Obsolete : ErrorCount(manifest, <<"Cannot remove", p>>) >= 1}
C17_PruneFailure ==
    PruneDone
    => /\ \A p \in PruneFailed :
            /\ ErrorCount(manifest, <<"Cannot remove", p>>) = 1
            /\ dstFiles[PruneTarget(p, opts.compress)] # Missing
       /\ \A p \in Obsolete \ PruneFailed :
            ~opts.dry_run => dstFiles[PruneTarget(p, opts.compress)] = Missing
       /\ manifest.files_removed = Cardinality(Obsolete \ PruneFailed)
\* the unlink of a.txt failed; sub/b.txt, processed after it, was removed and
\* is the only one counted
C17_Witness ==
    /\ PruneDone /\ ~opts.dry_run
    /\ Obsolete = Paths
    /\ PruneFailed = {"a.txt"}
    /\ start.dstFiles[PruneTarget("sub/b.txt", opts.compress)] # Missing
    /\ dstFiles[PruneTarget("sub/b.txt", opts.compress)] = Missing
    /\ manifest.files_removed = 1

\* C18: a verify_backup call leaves the destination's directories and files,
\* the persisted manifest and the persisted digest table as they were, and a
\* call that follows another with no change in between returns what the first
\* returned.
VerifyStep ==
    /\ verify_result' # "none"
    /\ <<verify_result, verify_prev>>' # <<verify_result, verify_prev>>
C18_VerifyReadOnly ==
    [][VerifyStep => /\ UNCHANGED destVars
                     /\ verify_result # "none" => verify_result' = verify_result]_vars
\* two verifications in a row of a destination holding a corrupted artifact,
\* both failing
C18_Witness ==
    /\ verify_prev = "fail"
    /\ verify_result = "fail"
    /\ hashesFile.state = "full"
    /\ \E p \in BadEntries : dstFiles[Plain(p)] = Garbage

\* C19 as stated: a run on a destination with no digest table, whose scan met
\* no fault and whose copies all succeeded, ends with files_backed_up = the
\* number of source files, files_skipped = 0 and files_removed = 0.
FirstRun == Returned /\ start.hashesFile.state = "absent"
C19_FirstRunOriginal ==
    (FirstRun /\ scan_fault = NoFault /\ CopyFailures(manifest) = 0)
    => /\ manifest.files_backed_up = Cardinality(SourceFiles(start.src))
       /\ manifest.files_skipped = 0
       /\ manifest.files_removed = 0
\* C19 amended: a run on a destination with no digest table selects every
\* digested file for copy and ends with files_skipped = 0 and
\* files_removed = 0; if no copy failed, files_backed_up = the number of
\* files digested.
C19_FirstRun ==
    FirstRun
    => /\ copySet = Keys(current_hashes)
       /\ manifest.files_skipped = 0
       /\ manifest.files_removed = 0
       /\ CopyFailures(manifest) = 0
          => manifest.files_backed_up = Cardinality(Keys(current_hashes))
\* a first run that digested and copied one of the two source files, the
\* digest of the other having failed
C19_Witness ==
    /\ FirstRun /\ ~opts.dry_run /\ runs = 1
    /\ scan_fault = NoFault
    /\ CopyFailures(manifest) = 0
    /\ Keys(current_hashes) = {"sub/b.txt"}
    /\ manifest.files_backed_up = 1
    /\ Cardinality(SourceFiles(start.src)) = 2

\* C20: the previous digest table a run works with is the table found
\* persisted at the destination when the run started (empty if there is none),
\* and a run without --dry-run that returned has replaced the persisted table
\* by its current table.
PersistedTableAtStart ==
    IF start.hashesFile.state = "full" THEN start.hashesFile.data ELSE EmptyTable
C20_PreviousTableIsPersisted ==
    /\ pc \in WorkStages => previous_hashes = PersistedTableAtStart
    /\ (Returned /\ ~opts.dry_run) => hashesFile = WrittenFile(current_hashes)

\* C21: within a run the main thread only moves forward through scan, digest,
\* copy, prune, persist and summary, so no stage is entered twice; a copy task
\* exists only once every digest task has finished and been collected, and
\* the prune and everything after it happen only once every copy task has.
StageOrder == <<"scan", "digest", "copy", "prune", "save_manifest",
                "write_manifest", "save_hashes", "write_hashes", "summary">>
Rank(stage) == CHOOSE i \in 1..Len(StageOrder) : StageOrder[i] = stage
C21_StageOrdering ==
    /\ []((\E p \in Paths : copyTask[p] # "none")
          => \A q \in Range(files) : hashTask[q] = "collected")
    /\ [](CopyDone => \A p \in copySet : copyTask[p] = "collected")
    /\ [][(pc \in RunPcs /\ pc' \in RunPcs /\ pc' # pc) => Rank(pc') > Rank(pc)]_vars
\* a run at its summary that digested both files, then copied both, then
\* pruned and persisted
C21_Witness ==
    /\ pc = "summary" /\ ~opts.dry_run
    /\ copySet = Paths
    /\ \A p \in Paths : hashTask[p] = "collected" /\ copyTask[p] = "collected"
    /\ hashesFile = WrittenFile(current_hashes)

\* C22: at every moment of the digest phase and of the copy phase the number
\* of tasks executing at once is at most the configured number of threads.
C22_BoundedConcurrency == Cardinality(RunningTasks) <= opts.threads
\* one worker: a copy task executes while the other waits in the queue
C22_Witness ==
    /\ opts.threads = 1
    /\ pc = "copy"
    /\ copyTask["a.txt"] = "queued"
    /\ copyTask["sub/b.txt"] = "running"

\* C23: at most one worker at a time is inside the locked append of an except
\* clause; the main thread reaches its own unlocked appends, in _collect_files
\* and in _remove_deleted_files, only while no worker task is executing; and
\* no append is lost: up to the prune the error list has one entry for the
\* scan error, if any, and one for each digest task and each copy task that
\* has failed.
InLock == {p \in Paths : appending[p].held}
ScanErrors == IF scan_fault.kind = "perm" THEN {scan_fault.at} ELSE {}
HashFailed == {p \in Range(files) : /\ hashTask[p] \in {"finished", "collected"}
                                    /\ hashResult[p] = NoHash}
CopyFailed == {p \in copySet : /\ copyTask[p] \in {"finished", "collected"}
                               /\ ~copyResult[p]}
C23_ErrorLogExclusion ==
    /\ Cardinality(InLock) <= 1
    /\ pc \in {"scan", "prune"} => RunningTasks = {}
    /\ pc \in WorkStages
       => Len(manifest.errors) = Cardinality(ScanErrors) + Cardinality(HashFailed)
                                 + Cardinality(CopyFailed)
\* two workers, both copies failed, the entry of sub/b.txt appended first
C23_Witness ==
    /\ pc = "prune"
    /\ opts.threads = 2
    /\ CopyFailed = Paths
    /\ manifest.errors = <<<<"Backup failed", "sub/b.txt">>, <<"Backup failed", "a.txt">>>>

\* C24: in the digest phase and in the copy phase a failed task keeps no other
\* submitted task from running to its end, and run() leaves either phase only
\* for the next stage (or because of an interrupt), never by raising: once
\* the copy phase is over every digest task and every copy task has been
\* collected, whatever number of them failed.
PoolStages == {"digest", "copy"}
C24_FailureIsolation ==
    /\ [](CopyDone => /\ (\A p \in Range(files) : hashTask[p] = "collected")
                       /\ (\A q \in copySet : copyTask[q] = "collected")
                       /\ Range(files) \ HashFailed = Keys(current_hashes)
                       /\ copySet \ CopyFailed = Copied)
    /\ [][(pc \in PoolStages)
           => pc' \in PoolStages \cup {"prune", "interrupted"}]_vars
\* a run that reached its summary and persisted after the copy of a.txt had
\* failed and the copy of sub/b.txt, started after it by the only worker, had
\* succeeded
C24_Witness ==
    /\ Returned /\ ~opts.dry_run /\ opts.threads = 1
    /\ CopyFailed = {"a.txt"}
    /\ Copied = {"sub/b.txt"}
    /\ manifest.errors = <<<<"Backup failed", "a.txt">>>>
    /\ PersistedByThisRun

\* C25: over every step of a run none of files_backed_up, files_skipped,
\* files_removed, bytes_transferred and total_size decreases, and the error
\* list after the step starts with the error list before it.
RunInProgress == pc \in RunPcs \cup {"interrupted"}
IsPrefix(s, t) == Len(s) <= Len(t) /\ \A i \in 1..Len(s) : s[i] = t[i]
C25_MonotonicRunState ==
    [][RunInProgress
       => /\ manifest'.files_backed_up >= manifest.files_backed_up
          /\ manifest'.files_skipped >= manifest.files_skipped
          /\ manifest'.files_removed >= manifest.files_removed
          /\ manifest'.bytes_transferred >= manifest.bytes_transferred
          /\ manifest'.total_size >= manifest.total_size
          /\ IsPrefix(manifest.errors, manifest'.errors)]_vars
\* a run at its end with a scanned size and two different entries in its
\* error list
C25_Witness ==
    /\ Returned
    /\ Len(manifest.errors) = 2
    /\ manifest.errors[1] # manifest.errors[2]
    /\ manifest.total_size > 0

\* C26: when every path of the previous table has its artifact where
\* _backup_file stores it (with .gz exactly when stored compressed), a prune
\* without --dry-run in which no unlink fails removes the artifact of every
\* path that is in the previous table and not in the current one, and
\* files_removed is the number of artifacts it removed.
StoredArtifact(p) == CopyTarget(previous_hashes[p], opts.compress)
C26_PrunerResult ==
    (/\ PruneDone /\ ~opts.dry_run
     /\ Len(manifest.errors) = 0
     /\ \A p \in Keys(previous_hashes) : start.dstFiles[StoredArtifact(p)] # Missing)
    => /\ \A p \in Obsolete : dstFiles[StoredArtifact(p)] = Missing
       /\ manifest.files_removed
          = Cardinality({a \in Artifacts : /\ start.dstFiles[a] # Missing
                                           /\ dstFiles[a] = Missing})

\* C27: outside dry-run a copy task writes one artifact at most: the gzip of
\* the source at the destination path with .gz appended if compression is on
\* and the size is above 1024 bytes, the plain bytes at the destination path
\* without suffix in every other case; a copy task that met no I/O fault has
\* left exactly that artifact.
Big(p) == opts.compress /\ current_hashes[p].size > 1024
FormArtifact(p) == IF Big(p) THEN <<p, ".gz">> ELSE <<p, "">>
FormBytes(p) == IF Big(p) THEN Gzip(src[p].content) ELSE Raw(src[p].content)
C27_StorageForm ==
    /\ []((InRun /\ ~opts.dry_run /\ NoEnvironmentEvent)
          => \A p \in copySet :
               copyTask[p] \in {"appending", "finished", "collected"}
               => dstFiles[FormArtifact(p)] = FormBytes(p))
    /\ [][\A p \in Paths :
            (copyTask[p] = "running" /\ copyTask'[p] # "running" /\ ~opts.dry_run)
            => \A a \in Artifacts :
                 dstFiles'[a] # dstFiles[a]
                 => /\ a = FormArtifact(p)
                    /\ dstFiles'[a] \in {FormBytes(p), Garbage}]_vars
\* a compressing run that wrote a.txt (1024 bytes) plain and sub/b.txt (1025
\* bytes) as sub/b.txt.gz
C27_Witness ==
    /\ pc = "prune" /\ opts.compress /\ ~opts.dry_run
    /\ dstFiles[Plain("a.txt")] = Raw(src["a.txt"].content)
    /\ dstFiles[WithGzSuffix("a.txt")] = Missing
    /\ dstFiles[WithGzSuffix("sub/b.txt")] = Gzip(src["sub/b.txt"].content)
    /\ dstFiles[Plain("sub/b.txt")] = Missing
    /\ current_hashes["a.txt"].size = 1024
    /\ current_hashes["sub/b.txt"].size = 1025

\* C28: when the stat of a file fails in the scan, an error is recorded, the
\* file is in the candidate list, and so is every other file of the tree.
C28_StatFailureBestEffort ==
    (pc = "digest" /\ scan_fault.kind \in {"perm", "oserr"})
    => /\ Len(manifest.errors) >= 1
       /\ scan_fault.at \in Range(files)
       /\ Range(files) = SourceFiles(src)

\* C29: after a run without --dry-run that returned, no path whose copy failed
\* in this run is in the persisted digest table, and every path of the
\* persisted table has its artifact at the destination.
C29_BaselineBackedByDestination ==
    (Returned /\ ~opts.dry_run /\ hashesFile.state = "full")
    => \A p \in Keys(hashesFile.data) :
         /\ p \notin CopyFailed
         /\ dstFiles[CopyTarget(hashesFile.data[p], opts.compress)] # Missing

\* C30: what a run that returned reports and persists is a function of the
\* source tree, of the destination as it was when the run started, of the
\* options and of what happened to each file (digest readable or not, copy
\* written, corrupted or failed), whatever the interleaving and the order of
\* completion of the worker tasks: the counters, the current digest table and
\* the persisted digest table have the values computed below from those
\* inputs alone, and the error list holds the expected entries in some order.
ExpectedHashes ==
    [p \in Paths |-> IF p \in Range(files) /\ hashResult[p] # NoHash
                     THEN FileHash(p, start.src[p]) ELSE NoHash]
ExpectedCopySet ==
    FilesToBackup(ExpectedHashes, previous_hashes, opts.checksum_algorithm)
ExpectedCopyOk(p) ==
    /\ copyIO[p] \in {"ok", "corrupt"}
    /\ \/ opts.dry_run
       \/ LET h == ExpectedHashes[p]
              alone == [start.dstFiles EXCEPT
                          ![CopyTarget(h, opts.compress)] =
                             IF copyIO[p] = "corrupt" THEN Garbage
                             ELSE CopyBytes(h, start.src[p], opts.compress)]
          IN PostWriteCheck(h, alone, opts.compress, opts.checksum_algorithm) = "ok"
ExpectedCopied == {p \in ExpectedCopySet : ExpectedCopyOk(p)}
ExpectedErrors ==
    {<<"Cannot access directory", p>> : p \in ScanErrors}
    \cup {<<"Cannot hash", p>> : p \in Range(files) \ Keys(ExpectedHashes)}
    \cup {<<"Backup failed", p>> : p \in ExpectedCopySet \ ExpectedCopied}
    \cup {<<"Cannot remove", p>> : p \in PruneFailed}
C30_SchedulingIndependence ==
    Returned
    => /\ current_hashes = ExpectedHashes
       /\ manifest.files_backed_up = Cardinality(ExpectedCopied)
       /\ manifest.files_skipped
          = Cardinality(Keys(ExpectedHashes)) - Cardinality(ExpectedCopySet)
       /\ manifest.files_removed
          = Cardinality(ObsoletePaths(previous_hashes, ExpectedHashes) \ PruneFailed)
       /\ manifest.bytes_transferred = BytesOf(ExpectedCopied, ExpectedHashes)
       /\ ~opts.dry_run => hashesFile = WrittenFile(ExpectedHashes)
       /\ Range(manifest.errors) = ExpectedErrors
       /\ Len(manifest.errors) = Cardinality(ExpectedErrors)
\* two workers: both digests done and collected, the copy of sub/b.txt failed
\* and logged before the copy of a.txt failed, and the run ended with the
\* computed counters and table
C30_Witness ==
    /\ Returned /\ ~opts.dry_run /\ opts.threads = 2
    /\ Keys(current_hashes) = Paths
    /\ manifest.errors = <<<<"Backup failed", "sub/b.txt">>, <<"Backup failed", "a.txt">>>>
    /\ copyIO["a.txt"] = "corrupt"
    /\ manifest.files_backed_up = 0
    /\ hashesFile = WrittenFile(current_hashes)

====
